---- MODULE Spec2Model ----
(***************************************************************************)
(* Model of app.py: a Streamlit chat page that keeps a conversation        *)
(* history in st.session_state, trims it by character count, flattens it   *)
(* into one `input` string, posts it to the Groq endpoint and decodes the  *)
(* reply with parse_groq_response.                                         *)
(*                                                                         *)
(* Python values are tagged records [t |-> type, v |-> value] with         *)
(* t \in {"null","bool","num","str","list","dict"}; a dict is the sequence *)
(* of its <<key, value>> pairs in insertion order.  Strings are TLA+       *)
(* strings (Len, SubSeq and \o act on them character by character).  The   *)
(* accented letters of the program's literals are written unaccented, one  *)
(* character for one character, so every length is the program's.  The     *)
(* `time` field of a turn is never read by the code modelled here and is   *)
(* left out.                                                               *)
(***************************************************************************)
EXTENDS Integers, Sequences, FiniteSets, TLC

VARIABLES
    history,        \* st.session_state.history
    api_key,        \* st.secrets.get("groq_api_key", None)
    max_chars,      \* sidebar number_input
    op,             \* the interaction the last script run served
    user_input,     \* value of st.chat_input in the last run
    prev_history,   \* history when the last submission started
    hist_for_api,   \* result of truncate_history_by_chars in the last run
    input_text,     \* result of build_input_from_history in the last run
    calls,          \* requests.post calls made by the last run
    resp,           \* what requests.post delivered in the last run
    assistant_text, \* value bound to assistant_text in the last run
    outcome         \* how the last run ended

vars == <<history, api_key, max_chars, op, user_input, prev_history,
          hist_for_api, input_text, calls, resp, assistant_text, outcome>>

----------------------------------------------------------------------------
(* Bounds *)

\* longest stored history the model explores (system turn included)
MaxHist == 5

----------------------------------------------------------------------------
(* Python values *)

None == [t |-> "null", v |-> 0]
Bool(b) == [t |-> "bool", v |-> b]
Num(n) == [t |-> "num", v |-> n]
Str(s) == [t |-> "str", v |-> s]
List(q) == [t |-> "list", v |-> q]
Dict(q) == [t |-> "dict", v |-> q]

IsStr(x) == x.t = "str"
IsList(x) == x.t = "list"
IsDict(x) == x.t = "dict"

\* bool(x)
Truthy(x) ==
    CASE x.t = "null" -> FALSE
      [] x.t = "bool" -> x.v
      [] x.t = "num"  -> x.v # 0
      [] x.t = "str"  -> Len(x.v) > 0
      [] x.t = "list" -> Len(x.v) > 0
      [] x.t = "dict" -> Len(x.v) > 0

\* k in d
HasKey(d, k) == \E i \in 1..Len(d.v) : d.v[i][1] = k

\* d.get(k): None when the key is absent
Get(d, k) ==
    IF HasKey(d, k)
    THEN d.v[CHOOSE i \in 1..Len(d.v) : d.v[i][1] = k][2]
    ELSE None

\* s[:n] for n >= 0
Prefix(s, n) == IF Len(s) <= n THEN s ELSE SubSeq(s, 1, n)

\* Suffix with the slice starting one character early
SuffixOneMore(s, n) ==
    IF n = 0 \/ Len(s) <= n THEN s ELSE SubSeq(s, Len(s) - n, Len(s))

\* s[-n:] for n >= 0 (s[-0:] is s[0:], the whole string)
Suffix(s, n) ==
    IF n = 0 \/ Len(s) <= n THEN s ELSE SubSeq(s, Len(s) - n + 1, Len(s))

\* s.startswith(p)
StartsWith(s, p) == Len(s) >= Len(p) /\ SubSeq(s, 1, Len(p)) = p

----------------------------------------------------------------------------
(* Config *)

SYSTEM_PROMPT ==
    "Eres un asistente conversacional util y conciso. Responde en espanol."
MODEL_NAME == "llama3-8b-8192"
DEFAULT_MAX_CHARS_HISTORY == 6000
DEFAULT_GROQ_ENDPOINT == "https://api.groq.com/openai/v1/responses"

----------------------------------------------------------------------------
(* session_state *)

Turn(role, content) == [role |-> role, content |-> content]

InitialHistory == <<Turn("system", SYSTEM_PROMPT)>>

\* add_message: the history after the append
add_message(h, role, content) == Append(h, Turn(role, content))

\* clear_history leaving an empty list behind
clear_history_empty == <<>>

\* clear_history: the history after the reset
clear_history == <<Turn("system", SYSTEM_PROMPT)>>

RECURSIVE SumLen(_)
\* sum(len(m["content"]) for m in h)
SumLen(h) == IF h = <<>> THEN 0 ELSE Len(Head(h).content) + SumLen(Tail(h))

RECURSIVE Filter(_, _)
\* [m for m in h if (m["role"] == "system") == sys]
Filter(h, sys) ==
    IF h = <<>> THEN <<>>
    ELSE IF (Head(h).role = "system") = sys
         THEN <<Head(h)>> \o Filter(Tail(h), sys)
         ELSE Filter(Tail(h), sys)

\* q[::-1]
Reverse(q) == [i \in 1..Len(q) |-> q[Len(q) + 1 - i]]

\* the slack below which a turn that does not fit is dropped, not cut
SlackThreshold == 50

RECURSIVE TruncLoop(_, _, _, _)
\* the for loop of truncate_history_by_chars, msgs being what is left of
\* reversed_msgs; the value is new_hist when the loop ends
TruncLoop(new_hist, current_chars, msgs, maxc) ==
    IF msgs = <<>> THEN new_hist
    ELSE LET m == Head(msgs) IN
         IF current_chars + Len(m.content) <= maxc
         THEN TruncLoop(Append(new_hist, m), current_chars + Len(m.content),
                        Tail(msgs), maxc)
         ELSE LET remaining == maxc - current_chars IN
              IF remaining > SlackThreshold
              THEN Append(new_hist,
                          [m EXCEPT !.content = Suffix(m.content, remaining)])
              ELSE new_hist

\* truncate_history_by_chars holding the system turns to the budget too
truncate_history_sys_budgeted(h, maxc) ==
    IF maxc <= 0 THEN h
    ELSE IF SumLen(h) <= maxc THEN h
    ELSE Reverse(TruncLoop(<<>>, 0, Filter(h, TRUE) \o Reverse(Filter(h, FALSE)),
                           maxc))

truncate_history_by_chars(h, maxc) ==
    IF maxc <= 0 THEN h
    ELSE IF SumLen(h) <= maxc THEN h
    ELSE LET new_hist == Filter(h, TRUE)
             reversed_msgs == Reverse(Filter(h, FALSE))
         IN  Reverse(TruncLoop(new_hist, SumLen(new_hist), reversed_msgs, maxc))

----------------------------------------------------------------------------
(* build_input_from_history *)

\* m["role"].upper() for the roles add_message is called with
Upper(role) ==
    CASE role = "system"    -> "SYSTEM"
      [] role = "user"      -> "USER"
      [] role = "assistant" -> "ASSISTANT"
      [] OTHER              -> role

IsSpace(c) == c \in {" ", "\t", "\n", "\r"}

RECURSIVE LStrip(_)
LStrip(s) ==
    IF Len(s) > 0 /\ IsSpace(SubSeq(s, 1, 1))
    THEN LStrip(SubSeq(s, 2, Len(s)))
    ELSE s

RECURSIVE RStrip(_)
RStrip(s) ==
    IF Len(s) > 0 /\ IsSpace(SubSeq(s, Len(s), Len(s)))
    THEN RStrip(SubSeq(s, 1, Len(s) - 1))
    ELSE s

\* s.strip()
Strip(s) == RStrip(LStrip(s))

RECURSIVE Join(_, _)
\* sep.join(parts)
Join(sep, parts) ==
    IF parts = <<>> THEN ""
    ELSE IF Len(parts) = 1 THEN parts[1]
    ELSE parts[1] \o sep \o Join(sep, Tail(parts))

build_input_from_history(h) ==
    LET part(m) ==
            LET up == Upper(m.role)
                role == IF up \in {"SYSTEM", "USER", "ASSISTANT"}
                        THEN up ELSE "USER"
            IN  "[" \o role \o "]: " \o Strip(m.content)
    IN  Join("\n\n", [i \in 1..Len(h) |-> part(h[i])])

----------------------------------------------------------------------------
(* json.dumps and str *)

RECURSIVE JsonDumps(_)
\* json.dumps(x) with the default separators; the strings of the payloads
\* modelled hold no character that json.dumps escapes
JsonDumps(x) ==
    CASE x.t = "null" -> "null"
      [] x.t = "bool" -> IF x.v THEN "true" ELSE "false"
      [] x.t = "num"  -> ToString(x.v)
      [] x.t = "str"  -> "\"" \o x.v \o "\""
      [] x.t = "list" ->
            "[" \o Join(", ", [i \in 1..Len(x.v) |-> JsonDumps(x.v[i])]) \o "]"
      [] x.t = "dict" ->
            "{" \o Join(", ", [i \in 1..Len(x.v) |->
                      "\"" \o x.v[i][1] \o "\": " \o JsonDumps(x.v[i][2])])
                \o "}"

RECURSIVE PyRepr(_)
\* repr(x)
PyRepr(x) ==
    CASE x.t = "null" -> "None"
      [] x.t = "bool" -> IF x.v THEN "True" ELSE "False"
      [] x.t = "num"  -> ToString(x.v)
      [] x.t = "str"  -> "'" \o x.v \o "'"
      [] x.t = "list" ->
            "[" \o Join(", ", [i \in 1..Len(x.v) |-> PyRepr(x.v[i])]) \o "]"
      [] x.t = "dict" ->
            "{" \o Join(", ", [i \in 1..Len(x.v) |->
                      "'" \o x.v[i][1] \o "': " \o PyRepr(x.v[i][2])])
                \o "}"

\* str(x)
PyStr(x) == IF x.t = "str" THEN x.v ELSE PyRepr(x)

----------------------------------------------------------------------------
(* parse_groq_response *)

\* "no return yet": the scan of a shape fell through
NoMatch == [t |-> "nomatch", v |-> 0]

Matched(x) == x.t # "nomatch"

\* x or y
Or(x, y) == IF Truthy(x) THEN x ELSE y

RECURSIVE ScanContentList(_)
\* for c in content_list: the first string `text`, else string `content`,
\* of the first dict item that has one
ScanContentList(cl) ==
    IF cl = <<>> THEN NoMatch
    ELSE LET c == Head(cl) IN
         IF IsDict(c) /\ HasKey(c, "text") /\ IsStr(Get(c, "text"))
         THEN Get(c, "text")
         ELSE IF IsDict(c) /\ HasKey(c, "content") /\ IsStr(Get(c, "content"))
         THEN Get(c, "content")
         ELSE ScanContentList(Tail(cl))

RECURSIVE ScanOutputs(_)
\* for out in outputs
ScanOutputs(outs) ==
    IF outs = <<>> THEN NoMatch
    ELSE LET out == Head(outs)
             content_list == Or(Get(out, "content"), List(<<>>))
             found == IF IsDict(out) /\ IsList(content_list)
                      THEN ScanContentList(content_list.v)
                      ELSE NoMatch
         IN  IF Matched(found) THEN found ELSE ScanOutputs(Tail(outs))

\* the `output` shape
FromOutput(data) ==
    LET outputs == Get(data, "output") IN
    IF IsList(outputs) THEN ScanOutputs(outputs.v) ELSE NoMatch

\* the OpenAI-style `choices` shape
FromChoices(data) ==
    LET choices == Get(data, "choices") IN
    IF IsList(choices) /\ Len(choices.v) > 0
    THEN LET ch0 == choices.v[1] IN
         IF IsDict(ch0)
         THEN LET msg == Get(ch0, "message")
                  cont == Get(msg, "content")
              IN  IF IsDict(msg) /\ IsStr(cont) THEN cont
                  ELSE IF IsDict(msg) /\ IsDict(cont) /\ HasKey(cont, "text")
                       THEN Get(cont, "text")
                  ELSE IF HasKey(ch0, "text") /\ IsStr(Get(ch0, "text"))
                       THEN Get(ch0, "text")
                  ELSE NoMatch
         ELSE NoMatch
    ELSE NoMatch

\* the top-level `text` shape
FromText(data) ==
    IF HasKey(data, "text") /\ IsStr(Get(data, "text"))
    THEN Get(data, "text")
    ELSE NoMatch

\* cap of the JSON dump of an unrecognized payload
DumpCap == 3000

\* json.dumps of a value json.loads produced never raises, so the except
\* branch of the fallback is not reachable
FromDump(data) == Str(Prefix(JsonDumps(data), DumpCap))

\* parse_groq_response trying `choices` before `output`
parse_groq_response_choices_first(data) ==
    IF ~IsDict(data) THEN Str(PyStr(data))
    ELSE IF Matched(FromChoices(data)) THEN FromChoices(data)
    ELSE IF Matched(FromOutput(data)) THEN FromOutput(data)
    ELSE IF Matched(FromText(data)) THEN FromText(data)
    ELSE FromDump(data)

\* the value parse_groq_response returns
parse_groq_response(data) ==
    IF ~IsDict(data) THEN Str(PyStr(data))
    ELSE IF Matched(FromOutput(data)) THEN FromOutput(data)
    ELSE IF Matched(FromChoices(data)) THEN FromChoices(data)
    ELSE IF Matched(FromText(data)) THEN FromText(data)
    ELSE FromDump(data)


----------------------------------------------------------------------------
(* call_groq_api_with_input *)

\* what requests.post delivers: it raises a RequestException (exc, msg), or
\* returns a response with a status code, a body text and, when the body
\* parses as JSON, the parsed value
Raised(msg) ==
    [exc |-> TRUE, msg |-> msg, status |-> 0, text |-> "",
     isjson |-> FALSE, data |-> None]
Response(status, text) ==
    [exc |-> FALSE, msg |-> "", status |-> status, text |-> text,
     isjson |-> FALSE, data |-> None]
JsonResponse(status, data) ==
    [exc |-> FALSE, msg |-> "", status |-> status, text |-> JsonDumps(data),
     isjson |-> TRUE, data |-> data]
NoResp == Response(0, "")

\* resp.ok: raise_for_status() does not raise
Ok(r) == ~(r.status >= 400 /\ r.status < 600)

\* cap of the body excerpt of an HTTP error
ErrorBodyCap == 1500
\* cap of a 2xx body that is not JSON
RawBodyCap == 4000

\* the value call_groq_api_with_input returns when requests.post delivers r
call_groq_api_with_input(text_in, key, endpoint, r) ==
    IF r.exc THEN Str("[ERROR de conexion] " \o r.msg)
    ELSE IF ~Ok(r)
    THEN LET body_text == IF Len(r.text) > 0
                          THEN Prefix(r.text, ErrorBodyCap) ELSE "<no body>"
         IN  Str("[HTTP " \o ToString(r.status)
                 \o "] Error llamando al endpoint.\nURL: " \o endpoint
                 \o "\nRespuesta (parcial): " \o body_text)
    ELSE IF ~r.isjson THEN Str(Prefix(r.text, RawBodyCap))
    ELSE parse_groq_response(r.data)

----------------------------------------------------------------------------
(* Inputs *)

RECURSIVE Rep(_, _)
\* s repeated n times
Rep(s, n) ==
    IF n = 0 THEN ""
    ELSE IF n % 2 = 0 THEN LET half == Rep(s, n \div 2) IN half \o half
    ELSE s \o Rep(s, n - 1)

\* what st.chat_input returns: None when nothing was submitted, else the text
UserInputs ==
    <<None, Str("hola"), Str(" "), Str(Rep("largo", 41))>>

\* values of the sidebar number_input
MaxCharsChoices == {0, 60, 130, DEFAULT_MAX_CHARS_HISTORY}

\* values of st.secrets.get("groq_api_key", None)
ApiKeys == <<None, Str(""), Str("gsk_test")>>

endpoint_override == DEFAULT_GROQ_ENDPOINT

Pair(k, v) == <<k, v>>
TextItem(x) == Dict(<<Pair("text", x)>>)
OutputOf(items) == Pair("output", List(<<Dict(<<Pair("content", List(items))>>)>>))
ChoicesOf(cont) ==
    Pair("choices", List(<<Dict(<<Pair("message",
                                       Dict(<<Pair("content", cont)>>))>>)>>))

\* JSON bodies of 2xx responses
Payloads ==
    << Dict(<<OutputOf(<<TextItem(Str("hi"))>>)>>),
       Dict(<<OutputOf(<<Dict(<<Pair("content", Str("hi2"))>>)>>)>>),
       Dict(<<Pair("output", List(<<Str("hi")>>))>>),
       Dict(<<Pair("output", List(<<Dict(<<Pair("content", Str("hi"))>>)>>))>>),
       Dict(<<OutputOf(<<TextItem(Str("from output"))>>),
              ChoicesOf(Str("from choices")),
              Pair("text", Str("from text"))>>),
       Dict(<<Pair("text", Str("from text")),
              ChoicesOf(Str("from choices"))>>),
       Dict(<<ChoicesOf(Str("hello"))>>),
       Dict(<<ChoicesOf(TextItem(Str("nested")))>>),
       Dict(<<ChoicesOf(TextItem(Num(123)))>>),
       Dict(<<Pair("choices", List(<<TextItem(Str("completion"))>>))>>),
       Dict(<<Pair("text", Str("[HTTP is a protocol"))>>),
       Dict(<<Pair("foo", Str("bar"))>>),
       Dict(<<Pair("foo", Str(Rep("0123456789", 310)))>>),
       Dict(<<OutputOf(<<TextItem(Num(5))>>),
              Pair("text", Str("fallback text"))>>),
       Dict(<<Pair("output",
                   List(<<Str("x"),
                          Dict(<<Pair("content", List(<<Str("y"), Num(1)>>))>>),
                          Dict(<<Pair("content",
                                      List(<<TextItem(Str("second"))>>))>>)>>))>>),
       List(<<Str("a"), Num(1)>>),
       None >>

\* everything requests.post can deliver
Responses ==
    [i \in 1..Len(Payloads) |-> JsonResponse(200, Payloads[i])]
    \o << Response(200, "[ERROR] upstream said no"),
          Response(200, Rep("<p>html</p>", 370)),
          Response(404, "not found"),
          Response(401, Rep("denied ", 220)),
          Raised("timed out") >>

----------------------------------------------------------------------------
(* The page *)

SimulatorMarker == "(SIMULADOR)"
ApiErrorMarker == "**(Error de la API)**"
\* cap of the user text the simulator echoes
EchoCap == 200

Init ==
    /\ history = InitialHistory
    /\ \E i \in 1..Len(ApiKeys) : api_key = ApiKeys[i]
    /\ max_chars = DEFAULT_MAX_CHARS_HISTORY
    /\ op = "start"
    /\ user_input = None
    /\ prev_history = InitialHistory
    /\ hist_for_api = <<>>
    /\ input_text = ""
    /\ calls = 0
    /\ resp = NoResp
    /\ assistant_text = None
    /\ outcome = "none"

\* a script run that serves no chat submission: `if user_input:` is false
Idle(ui) ==
    /\ ~Truthy(ui)
    /\ op' = "chat"
    /\ user_input' = ui
    /\ prev_history' = history
    /\ hist_for_api' = <<>>
    /\ input_text' = ""
    /\ calls' = 0
    /\ resp' = NoResp
    /\ assistant_text' = None
    /\ outcome' = "ignored"
    /\ UNCHANGED <<history, api_key, max_chars>>

\* the body of `if user_input:` up to the branch on api_key
Prepare(ui) ==
    /\ Truthy(ui)
    /\ Len(history) + 2 <= MaxHist
    /\ op' = "chat"
    /\ user_input' = ui
    /\ prev_history' = history
    /\ hist_for_api' =
           truncate_history_by_chars(add_message(history, "user", ui.v),
                                     max_chars)
    /\ input_text' = build_input_from_history(hist_for_api')
    /\ UNCHANGED <<api_key, max_chars>>

\* a submission with no API key: the simulator answers
SubmitSimulator(ui) ==
    /\ Prepare(ui)
    /\ ~Truthy(api_key)
    /\ assistant_text' =
           Str(SimulatorMarker \o " He recibido: " \o Prefix(ui.v, EchoCap)
               \o ". Responde como asistente en espanol.")
    /\ history' = add_message(add_message(history, "user", ui.v),
                              "assistant", assistant_text'.v)
    /\ calls' = 0
    /\ resp' = NoResp
    /\ outcome' = "simulator"

\* a submission with an API key, requests.post delivering r
SubmitApi(ui, r) ==
    /\ Prepare(ui)
    /\ Truthy(api_key)
    /\ calls' = 1
    /\ resp' = r
    /\ assistant_text' =
           call_groq_api_with_input(input_text', api_key, endpoint_override, r)
    /\ LET h1 == add_message(history, "user", ui.v) IN
       IF ~IsStr(assistant_text')
       THEN \* assistant_text.startswith raises AttributeError
            /\ history' = h1
            /\ outcome' = "exception"
       ELSE IF \/ StartsWith(assistant_text'.v, "[HTTP")
               \/ StartsWith(assistant_text'.v, "[ERROR")
       THEN /\ history' = add_message(h1, "assistant",
                              ApiErrorMarker \o ": " \o assistant_text'.v)
            /\ outcome' = "error"
       ELSE /\ history' = add_message(h1, "assistant", assistant_text'.v)
            /\ outcome' = "ok"

\* the chat input of one script run
Chat ==
    \E i \in 1..Len(UserInputs) :
        \/ Idle(UserInputs[i])
        \/ SubmitSimulator(UserInputs[i])
        \/ \E j \in 1..Len(Responses) : SubmitApi(UserInputs[i], Responses[j])

\* a run that serves no chat submission leaves nothing of one behind
Blank(h) ==
    /\ user_input' = None
    /\ prev_history' = h
    /\ hist_for_api' = <<>>
    /\ input_text' = ""
    /\ assistant_text' = None
    /\ outcome' = "none"

\* the "Limpiar memoria" button
LimpiarMemoria ==
    /\ history' = clear_history
    /\ op' = "clear"
    /\ calls' = 0
    /\ resp' = NoResp
    /\ Blank(clear_history)
    /\ UNCHANGED <<api_key, max_chars>>

\* the sidebar number_input is edited
SetMaxChars ==
    /\ \E m \in MaxCharsChoices : m # max_chars /\ max_chars' = m
    /\ op' = "config"
    /\ calls' = 0
    /\ resp' = NoResp
    /\ Blank(history)
    /\ UNCHANGED <<history, api_key>>

Next == Chat \/ LimpiarMemoria \/ SetMaxChars

Spec == Init /\ [][Next]_vars


----------------------------------------------------------------------------
(* Properties *)

\* the last run served a chat submission that passed `if user_input:`
Submitted == op = "chat" /\ Truthy(user_input)

\* the last run called the endpoint for a submission
Called == Submitted /\ calls = 1

\* the history truncate_history_by_chars was given in the last run
TruncInput == add_message(prev_history, "user", user_input.v)

\* the last run's truncation had to drop or cut something
Truncating == Submitted /\ max_chars > 0 /\ SumLen(TruncInput) > max_chars

IsSuffixOf(s, full) ==
    Len(s) <= Len(full) /\ SubSeq(full, Len(full) - Len(s) + 1, Len(full)) = s

Same(x, y) == x.t = y.t /\ x.v = y.v

SystemTurn == Turn("system", SYSTEM_PROMPT)

LastTurn == history[Len(history)]

\* the payload of the last call, when requests.post returned a 2xx JSON body
Decoded == Called /\ ~resp.exc /\ resp.status \in 200..299 /\ resp.isjson

\* the transport call of the last run failed
TransportFailed == resp.exc \/ resp.status \notin 200..299

\* C1: when truncation happens, the result is chronological: the system turn
\* first, then the kept turns, which are the newest ones, oldest to newest,
\* the oldest of them possibly cut to a suffix
C1_ChronologicalOrder ==
    Truncating =>
        LET k == Len(hist_for_api) - 1
            n == Len(TruncInput)
        IN  /\ k >= 0
            /\ hist_for_api[1] = SystemTurn
            /\ \A i \in 1..k :
                  /\ hist_for_api[i + 1].role = TruncInput[n - k + i].role
                  /\ IsSuffixOf(hist_for_api[i + 1].content,
                                TruncInput[n - k + i].content)

\* C2: the stored history always holds exactly one system turn, in first
\* place and with the constant system prompt as its content
C2_OneSystemTurnFirst ==
    /\ Len(history) >= 1
    /\ history[1] = SystemTurn
    /\ \A i \in 2..Len(history) : history[i].role # "system"

\* C2 witness: the history after a submission the API failed, then one the
\* code answered, both behind the system turn
C2_Witness ==
    /\ Len(history) = 5
    /\ StartsWith(history[3].content, ApiErrorMarker)
    /\ history[1] = SystemTurn

\* C3: for a budget above zero the truncated history holds the system turn,
\* content untouched, exactly once, also when it alone is over the budget
C3_SystemTurnKept ==
    (Submitted /\ max_chars > 0) =>
        Cardinality({i \in 1..Len(hist_for_api) :
                        hist_for_api[i] = SystemTurn}) = 1

\* C3 witness: the budget is smaller than the system prompt and the result
\* of the truncation is the system turn alone
C3_Witness ==
    /\ Truncating
    /\ Len(SYSTEM_PROMPT) > max_chars
    /\ hist_for_api = <<SystemTurn>>

\* the last run's truncation kept a turn with its content cut
CutATurn ==
    \E i \in 1..Len(hist_for_api) :
        hist_for_api[i].content \notin
            {TruncInput[m].content : m \in 1..Len(TruncInput)}

\* C4: when the system turn fits the budget, the truncated history's total
\* content length is within the budget, and a cut turn fills it exactly
C4_WithinBudget ==
    (Submitted /\ max_chars > 0 /\ Len(SYSTEM_PROMPT) <= max_chars) =>
        /\ SumLen(hist_for_api) <= max_chars
        /\ CutATurn => SumLen(hist_for_api) = max_chars

\* C4 witness: a truncation that kept two turns whole and cut a third
C4_Witness ==
    /\ Truncating
    /\ Len(SYSTEM_PROMPT) <= max_chars
    /\ Len(hist_for_api) = 4
    /\ SumLen(hist_for_api) = max_chars
    /\ CutATurn

\* C5: whatever requests.post delivers, the submission resolves to a string
\* that is appended as one assistant turn
C5_AlwaysAString ==
    Called =>
        /\ IsStr(assistant_text)
        /\ outcome # "exception"
        /\ Len(history) = Len(prev_history) + 2
        /\ LastTurn.role = "assistant"

\* C6: an empty or whitespace-only submission makes no HTTP call and leaves
\* the history as it was
C6_BlankInputIgnored ==
    (op = "chat" /\ (user_input.t = "null"
                     \/ (IsStr(user_input) /\ Strip(user_input.v) = ""))) =>
        /\ calls = 0
        /\ history = prev_history

\* C7: an `output` element that is a plain string, or that has a string
\* `content` field of its own, parses to that string
C7_DirectOutputElement ==
    (Decoded /\ IsDict(resp.data) /\ IsList(Get(resp.data, "output"))
        /\ Len(Get(resp.data, "output").v) = 1) =>
        LET out == Get(resp.data, "output").v[1] IN
            /\ IsStr(out) => Same(assistant_text, out)
            /\ (IsDict(out) /\ IsStr(Get(out, "content")))
                   => Same(assistant_text, Get(out, "content"))

\* C8: the shapes are tried in the order output, choices[0], top-level text,
\* JSON dump capped at 3000 characters, and the first one that yields wins
C8_ShapeOrder ==
    (Decoded /\ IsDict(resp.data)) =>
        LET d == resp.data IN
            /\ Matched(FromOutput(d)) => Same(assistant_text, FromOutput(d))
            /\ (~Matched(FromOutput(d)) /\ Matched(FromChoices(d)))
                   => Same(assistant_text, FromChoices(d))
            /\ (~Matched(FromOutput(d)) /\ ~Matched(FromChoices(d))
                    /\ Matched(FromText(d)))
                   => Same(assistant_text, FromText(d))
            /\ (~Matched(FromOutput(d)) /\ ~Matched(FromChoices(d))
                    /\ ~Matched(FromText(d)))
                   => /\ IsStr(assistant_text)
                      /\ assistant_text.v = Prefix(JsonDumps(d), 3000)
                      /\ Len(assistant_text.v) <= 3000
            /\ d = Dict(<<Pair("foo", Str("bar"))>>)
                   => Same(assistant_text, Str("{\"foo\": \"bar\"}"))

\* C8 witness: a payload with all three shapes was decoded from `output`,
\* the three shapes holding different texts
C8_Witness ==
    /\ Decoded
    /\ IsDict(resp.data)
    /\ Matched(FromOutput(resp.data))
    /\ Matched(FromChoices(resp.data))
    /\ Matched(FromText(resp.data))
    /\ FromOutput(resp.data).v # FromChoices(resp.data).v
    /\ FromChoices(resp.data).v # FromText(resp.data).v
    /\ Same(assistant_text, FromOutput(resp.data))
    /\ LastTurn = Turn("assistant", "from output")

\* C9: a submission makes at most one call, none without an API key, and
\* appends exactly one user turn and then one assistant turn, the
\* simulator's beginning with its marker
C9_OneCallTwoTurns ==
    Submitted =>
        /\ calls <= 1
        /\ ~Truthy(api_key) => calls = 0
        /\ Len(history) = Len(prev_history) + 2
        /\ SubSeq(history, 1, Len(prev_history)) = prev_history
        /\ history[Len(history) - 1] = Turn("user", user_input.v)
        /\ LastTurn.role = "assistant"
        /\ ~Truthy(api_key) => StartsWith(LastTurn.content, SimulatorMarker)

\* C10: the assistant turn of a submission carries the API-error marker
\* exactly when the transport call failed
C10_MarkerIffTransportFailed ==
    (Called /\ LastTurn.role = "assistant") =>
        (StartsWith(LastTurn.content, ApiErrorMarker) <=> TransportFailed)


====
